---------------------------- MODULE Spec2Model ----------------------------
(***************************************************************************)
(* State-machine model of src/app.py (mediaDL backend): the JOBS map       *)
(* guarded by JOB_LOCK, the POST /download controller, the yt-dlp progress *)
(* hook, the direct image fetch, the /progress event stream and the        *)
(* cleanup_old_jobs reaper thread.                                         *)
(*                                                                         *)
(* Granularity.  Every store of update_job_progress is one step, because   *)
(* event_stream reads the record without JOB_LOCK and can run between any  *)
(* two stores.  Taking and releasing JOB_LOCK is folded into the first and *)
(* the last store of a critical section: nothing outside the lock can      *)
(* observe the lock itself.  Every unlocked read of event_stream and of    *)
(* the hook is a step of its own.                                          *)
(*                                                                         *)
(* Time is the integer number of seconds read by time.time(); it advances  *)
(* by Tick only.  last_update (written, never read) is left out.           *)
(***************************************************************************)
EXTENDS Integers, Sequences, FiniteSets, TLC

(* ------------------------------ bounds -------------------------------- *)
\* requests to POST /download over a run (job ids are 1..MaxJobs)
MaxJobs == 1
\* progress-hook callbacks the engine makes during one download
MaxHooks == 2
\* chunks the image response body is delivered in
MaxChunks == 2
\* clock advances over a run
MaxTicks == 2
\* the stream's event counter saturates here
MaxCount == 3
\* files of the download directory other than the predicted one's siblings
MaxOthers == 2

(* ------------------------- program constants -------------------------- *)
RETENTION == 3600
TIMEOUT_SECONDS == 600
HEARTBEAT == 1
RECENT == 120
MiB == 1048576
KiB == 1024

(* --------------------------- value domains ---------------------------- *)
\* Python None for numbers, for strings and for the speed string
NoneN == -1
NoneS == "None"
NoneSp == <<>>

JobIds == 1..MaxJobs
TickSteps == {1, 2, RETENTION - 1}
Terminal == {"done", "error"}

Free == 0
Reaper == -1

Min(a, b) == IF a < b THEN a ELSE b
Max(a, b) == IF a > b THEN a ELSE b
Truthy(n) == n # NoneN /\ n # 0

\* f"{x:.1f}" of the quotient num/den, in tenths, ties to even
Round1(num, den) ==
    LET q == (10 * num) \div den
        r == (10 * num) % den
    IN  IF 2 * r > den THEN q + 1
        ELSE IF 2 * r = den THEN q + (q % 2)
        ELSE q

\* the speed string built from bytes over seconds (lines 104-108, 242-245)
SpeedStr(bytes, secs) ==
    IF bytes \div secs > MiB \/ (bytes \div secs = MiB /\ bytes % secs > 0)
    THEN <<"MB/s", Round1(bytes, MiB * secs)>>
    ELSE <<"KB/s", Round1(bytes, KiB * secs)>>

(* ------------------------------ inputs -------------------------------- *)
\* request bodies: url as (scheme, host, path), with the mediaType
Urls == { [scheme |-> "", host |-> "", path |-> ""],
          [scheme |-> "ftp", host |-> "youtube.com", path |-> "/watch"],
          [scheme |-> "https", host |-> "example.org", path |-> "/watch"],
          [scheme |-> "https", host |-> "reddit.com", path |-> "/watch"],
          [scheme |-> "xhttps", host |-> "youtube.com", path |-> "/watch"] }
MediaTypes == {"Video", "Photo"}

\* sanitize_url: strip, and a leading x...http(s):// becomes https://
sanitize_url(url) ==
    IF url.scheme \in {"xhttp", "xhttps"} THEN [url EXCEPT !.scheme = "https"] ELSE url

\* the needles of detect_platform that occur as substrings of the url text:
\* `in` is a substring test on the whole url, so "t.co" is found in
\* "https://reddit.com/watch"
Needles(url) ==
    CASE url.host = "instagram.com" -> {"instagram.com"}
      [] url.host = "youtube.com" -> {"youtube.com"}
      [] url.host = "reddit.com" -> {"t.co"}
      [] OTHER -> {}

detect_platform(url) ==
    LET found == Needles(url)
    IN  CASE "instagram.com" \in found -> "instagram"
          [] found \cap {"facebook.com", "fb.watch", "fb.com"} # {} -> "facebook"
          [] found \cap {"youtube.com", "youtu.be"} # {} -> "youtube"
          [] found \cap {"twitter.com", "x.com", "t.co"} # {} -> "twitter"
          [] "linkedin.com" \in found -> "linkedin"
          [] found \cap {"snapchat.com", "snap.com"} # {} -> "snapchat"
          [] OTHER -> "unknown"

\* the info dicts of the metadata probe that the controller tells apart
Infos == { [ext |-> "jpg", vcodec |-> "none", thumbnail |-> TRUE, url |-> TRUE],
           [ext |-> "mp4", vcodec |-> "avc1", thumbnail |-> TRUE, url |-> TRUE],
           [ext |-> "mp4", vcodec |-> "avc1", thumbnail |-> FALSE, url |-> FALSE] }
NoInfo == [ext |-> "", vcodec |-> "", thumbnail |-> FALSE, url |-> FALSE]

\* messages of a failing metadata probe, by the substring the controller finds
ProbeErrors == {"private", "unavailable", "login", "unsupported url", "other"}

\* the dicts d the engine passes to the progress hook
HookInputs ==
    { [status |-> "downloading", total_bytes |-> 4000000, total_bytes_estimate |-> NoneN,
       downloaded_bytes |-> 200000, speed |-> NoneN, error |-> NoneS],
      [status |-> "downloading", total_bytes |-> 4000000, total_bytes_estimate |-> NoneN,
       downloaded_bytes |-> 2000000, speed |-> 2097152, error |-> NoneS],
      [status |-> "downloading", total_bytes |-> NoneN, total_bytes_estimate |-> 4000000,
       downloaded_bytes |-> 3960000, speed |-> NoneN, error |-> NoneS],
      [status |-> "downloading", total_bytes |-> NoneN, total_bytes_estimate |-> NoneN,
       downloaded_bytes |-> 2000000, speed |-> 512000, error |-> NoneS],
      [status |-> "downloading", total_bytes |-> NoneN, total_bytes_estimate |-> NoneN,
       downloaded_bytes |-> NoneN, speed |-> NoneN, error |-> NoneS],
      [status |-> "finished", total_bytes |-> NoneN, total_bytes_estimate |-> NoneN,
       downloaded_bytes |-> NoneN, speed |-> NoneN, error |-> NoneS],
      [status |-> "postprocessing", total_bytes |-> NoneN, total_bytes_estimate |-> NoneN,
       downloaded_bytes |-> NoneN, speed |-> NoneN, error |-> NoneS],
      [status |-> "error", total_bytes |-> NoneN, total_bytes_estimate |-> NoneN,
       downloaded_bytes |-> NoneN, speed |-> NoneN, error |-> "engine failure"],
      [status |-> "error", total_bytes |-> NoneN, total_bytes_estimate |-> NoneN,
       downloaded_bytes |-> NoneN, speed |-> NoneN, error |-> NoneS] }
NoHook == [status |-> "", total_bytes |-> NoneN, total_bytes_estimate |-> NoneN,
           downloaded_bytes |-> NoneN, speed |-> NoneN, error |-> NoneS]

\* content-length values of the image response (0: header absent) and chunk sizes
ContentLengths == {0, 50, 100}
ChunkSizes == {67, 75}

(* ------------------------------- state -------------------------------- *)
VARIABLES
    now,        \* time.time()
    ticks,      \* clock advances so far
    JOBS,       \* the keys of the JOBS dict
    rec,        \* the record dict of each job id (the object outlives its key)
    JOB_LOCK,   \* Free, Reaper, or the job id of the request thread holding it
    pc,         \* position of each request thread in download()
    loc,        \* locals of each request thread
    call,       \* the update_job_progress call a request thread is in
    resp,       \* the HTTP response of each request
    rPc, to_delete, rIdx, current_time,  \* cleanup_old_jobs
    sPc, sJob, sPay, sLast, sStart, sLastTime,   \* event_stream locals
    sFound, sEnd, sCount, sPend, sTorn, sSaw50,  \* what the session did
    fPc, fPath, fType, fDir, fRet   \* one call of find_downloaded_file

jobVars == <<JOBS, rec, JOB_LOCK, pc, loc, call, resp>>
reaperVars == <<rPc, to_delete, rIdx, current_time>>
streamVars == <<sPc, sJob, sPay, sLast, sStart, sLastTime,
                sFound, sEnd, sCount, sPend, sTorn, sSaw50>>
findVars == <<fPc, fPath, fType, fDir, fRet>>
vars == <<now, ticks, jobVars, reaperVars, streamVars, findVars>>

NoRec == [status |-> "", percent |-> 0, downloaded_bytes |-> 0, total_bytes |-> 0,
          speed |-> NoneSp, filename |-> NoneS, error |-> NoneS,
          platform |-> "", media_type |-> "", start_time |-> 0]

\* the record download() stores at creation (lines 477-489)
NewRecord(platform, media_type, t) ==
    [status |-> "queued", percent |-> 0, downloaded_bytes |-> 0, total_bytes |-> 0,
     speed |-> <<"0 KB/s">>, filename |-> NoneS, error |-> NoneS,
     platform |-> platform, media_type |-> media_type, start_time |-> t]

\* arguments of one update_job_progress call
Args(status, percent, downloaded, total, speed, filename, error) ==
    [status |-> status, percent |-> percent, downloaded_bytes |-> downloaded,
     total_bytes |-> total, speed |-> speed, filename |-> filename, error |-> error]
NoArgs == Args("", NoneN, NoneN, NoneN, NoneSp, NoneS, NoneS)
Phase(status, percent) == Args(status, percent, NoneN, NoneN, NoneSp, NoneS, NoneS)
\* the error write with percent reset to 0
ErrorArgsResetPercent(msg) == Args("error", 0, NoneN, NoneN, NoneSp, NoneS, msg)
ErrorArgs(msg) == Args("error", NoneN, NoneN, NoneN, NoneSp, NoneS, msg)

\* payloads of event_stream; a key the payload does not carry holds Absent*
AbsentN == -2
AbsentS == "absent"
AbsentSp == <<"absent">>
NoPayload == [status |-> AbsentS, percent |-> AbsentN, downloaded_bytes |-> AbsentN,
              total_bytes |-> AbsentN, speed |-> AbsentSp, filename |-> AbsentS,
              error |-> AbsentS, estimated_time |-> AbsentN, message |-> AbsentSp]
\* {'status': 'error', 'message': msg} (lines 675, 702, 751)
ErrorEvent(msg) == [NoPayload EXCEPT !.status = "error", !.message = <<msg>>]

NoCall == [a |-> NoArgs, step |-> 0, cont |-> "", old |-> NoRec]
\* the local `url` before the request body is read
NoUrl == [scheme |-> "none", host |-> "", path |-> ""]
NoLoc == [url |-> NoUrl, media_type |-> "", platform |-> "", path |-> "", info |-> NoInfo,
          is_image |-> FALSE,
          total_size |-> 0, downloaded |-> 0, chunks |-> 0, hooks |-> 0,
          d |-> NoHook, msg |-> "", code |-> 0, filename |-> NoneS]

\* a path: the part before the last dot and the extension, as os.path.splitext
\* cuts it; '' for the prepared path and None for the result are kept apart
EmptyPath == [base |-> "", ext |-> ""]
NonePath == [base |-> "None", ext |-> ""]

\* module load: no request, no session, the reaper asleep
InitProgram ==
    /\ ticks = 0
    /\ JOBS = {} /\ rec = [j \in JobIds |-> NoRec] /\ JOB_LOCK = Free
    /\ pc = [j \in JobIds |-> "idle"] /\ loc = [j \in JobIds |-> NoLoc]
    /\ call = [j \in JobIds |-> NoCall] /\ resp = [j \in JobIds |-> [code |-> 0, body |-> ""]]
    /\ rPc = "sleep" /\ to_delete = <<>> /\ rIdx = 0 /\ current_time = 0
    /\ sPc = "none" /\ sJob = 0 /\ sPay = NoPayload /\ sLast = NoPayload
    /\ sStart = 0 /\ sLastTime = 0
    /\ sFound = "unset" /\ sEnd = "" /\ sCount = 0
    /\ sPend = <<>> /\ sTorn = FALSE /\ sSaw50 = FALSE

Init ==
    /\ now = 0
    /\ InitProgram
    /\ fPc = "none" /\ fPath = EmptyPath /\ fType = "" /\ fDir = {} /\ fRet = NonePath

\* the wall clock moves
Tick ==
    /\ ticks < MaxTicks
    /\ \E d \in TickSteps : now' = now + d
    /\ ticks' = ticks + 1
    /\ UNCHANGED <<jobVars, reaperVars, findVars, streamVars>>

(* ------------------------ update_job_progress ------------------------- *)
\* the payload fields of a record: what event_stream serialises
Core(r) == [status |-> r.status, percent |-> r.percent,
            downloaded_bytes |-> r.downloaded_bytes, total_bytes |-> r.total_bytes,
            speed |-> r.speed, filename |-> r.filename, error |-> r.error]

\* the stores one call makes, in source order (lines 82-95), then the derived
\* speed (lines 101-108) when downloaded_bytes was passed
Steps(a) ==
    (IF a.percent # NoneN THEN <<"percent">> ELSE <<>>)
    \o (IF a.status # "" THEN <<"status">> ELSE <<>>)
    \o (IF a.downloaded_bytes # NoneN THEN <<"downloaded_bytes">> ELSE <<>>)
    \o (IF a.total_bytes # NoneN THEN <<"total_bytes">> ELSE <<>>)
    \o (IF a.speed # NoneSp THEN <<"speed">> ELSE <<>>)
    \o (IF a.filename # NoneS THEN <<"filename">> ELSE <<>>)
    \o (IF a.error # NoneS THEN <<"error">> ELSE <<>>)
    \o (IF a.downloaded_bytes # NoneN THEN <<"derive">> ELSE <<>>)

\* the store of a status also clearing the error field
StoreClearingError(r, f, a, t) ==
    CASE f = "percent" -> [r EXCEPT !.percent = a.percent]
      [] f = "status" -> [r EXCEPT !.status = a.status, !.error = NoneS]
      [] f = "downloaded_bytes" -> [r EXCEPT !.downloaded_bytes = a.downloaded_bytes]
      [] f = "total_bytes" -> [r EXCEPT !.total_bytes = a.total_bytes]
      [] f = "speed" -> [r EXCEPT !.speed = a.speed]
      [] f = "filename" -> [r EXCEPT !.filename = a.filename]
      [] f = "error" -> [r EXCEPT !.error = a.error]
      [] f = "derive" ->
            IF t - r.start_time > 0
            THEN [r EXCEPT !.speed = SpeedStr(a.downloaded_bytes, t - r.start_time)]
            ELSE r

\* one store into the record r at time t
Store(r, f, a, t) ==
    CASE f = "percent" -> [r EXCEPT !.percent = a.percent]
      [] f = "status" -> [r EXCEPT !.status = a.status]
      [] f = "downloaded_bytes" -> [r EXCEPT !.downloaded_bytes = a.downloaded_bytes]
      [] f = "total_bytes" -> [r EXCEPT !.total_bytes = a.total_bytes]
      [] f = "speed" -> [r EXCEPT !.speed = a.speed]
      [] f = "filename" -> [r EXCEPT !.filename = a.filename]
      [] f = "error" -> [r EXCEPT !.error = a.error]
      [] f = "derive" ->
            IF t - r.start_time > 0
            THEN [r EXCEPT !.speed = SpeedStr(a.downloaded_bytes, t - r.start_time)]
            ELSE r

\* the thread of request j enters update_job_progress(job_id = j, ...)
Call(j, a, cont) ==
    /\ pc' = [pc EXCEPT ![j] = "update"]
    /\ call' = [call EXCEPT ![j] = [a |-> a, step |-> 1, cont |-> cont, old |-> NoRec]]

\* one step of update_job_progress in the thread of request j
update_job_progress(j) ==
    /\ pc[j] = "update"
    /\ LET c == call[j]
           steps == Steps(c.a)
           first == c.step = 1
           last == c.step = Len(steps)
       IN  /\ IF first THEN JOB_LOCK = Free ELSE JOB_LOCK = j
           /\ IF j \notin JOBS
              THEN /\ pc' = [pc EXCEPT ![j] = c.cont]
                   /\ call' = [call EXCEPT ![j] = NoCall]
                   /\ UNCHANGED <<rec, JOB_LOCK, sPend, sTorn>>
              ELSE LET r2 == Store(rec[j], steps[c.step], c.a, now)
                   IN  /\ rec' = [rec EXCEPT ![j] = r2]
                       /\ JOB_LOCK' = IF last THEN Free ELSE j
                       /\ pc' = IF last THEN [pc EXCEPT ![j] = c.cont] ELSE pc
                       /\ call' = [call EXCEPT ![j] =
                                     IF last THEN NoCall
                                     ELSE [c EXCEPT !.step = c.step + 1,
                                                    !.old = IF first THEN rec[j] ELSE c.old]]
                       /\ IF last /\ sJob = j /\ sPend # <<>>
                          THEN sPend' = <<>> /\ sTorn' = (sTorn \/ sPend[1] # Core(r2))
                          ELSE UNCHANGED <<sPend, sTorn>>
    /\ UNCHANGED <<now, ticks, JOBS, loc, resp, reaperVars, findVars>>
    /\ UNCHANGED <<sPc, sJob, sPay, sLast, sStart, sLastTime,
                   sFound, sEnd, sCount, sSaw50>>

\* update_job_progress on its own: two threads, each in one call on its own job
\* id, the id in the store or not
UpdateIds == {1, 2}
\* calls as the source makes them: lines 498, 146, 253, 261, 625, 645
UpdateCalls ==
    { Phase("starting", 10),
      Phase("downloading", 0),
      Args("downloading", 50, 2000000, 4000000, <<"MB/s", 20>>, NoneS, NoneS),
      Args("downloading", 85, 2000000, NoneN, NoneSp, NoneS, NoneS),
      Args("done", 100, NoneN, NoneN, NoneSp, "media.mp4", NoneS),
      ErrorArgs("Download failed") }
\* records as earlier calls leave them
UpdateRecords ==
    { NewRecord("youtube", "Video", 10),
      [NewRecord("youtube", "Video", 7) EXCEPT
          !.status = "downloading", !.percent = 40, !.downloaded_bytes = 1600000,
          !.total_bytes = 4000000, !.speed = <<"KB/s", 5208>>],
      [NewRecord("instagram", "Photo", 7) EXCEPT
          !.status = "error", !.percent = 70, !.error = "engine failure"] }

InitUpdate ==
    /\ now = 10 /\ ticks = 0
    /\ JOBS \in SUBSET UpdateIds
    /\ rec \in [UpdateIds -> UpdateRecords]
    /\ JOB_LOCK = Free
    /\ pc = [j \in UpdateIds |-> "update"]
    /\ loc = [j \in UpdateIds |-> NoLoc]
    /\ call \in [UpdateIds -> {[a |-> a, step |-> 1, cont |-> "returned", old |-> NoRec] :
                                  a \in UpdateCalls}]
    /\ resp = [j \in UpdateIds |-> [code |-> 0, body |-> ""]]
    /\ rPc = "sleep" /\ to_delete = <<>> /\ rIdx = 0 /\ current_time = 0
    /\ sPc = "none" /\ sJob = 0 /\ sPay = NoPayload /\ sLast = NoPayload
    /\ sStart = 0 /\ sLastTime = 0
    /\ sFound = "unset" /\ sEnd = "" /\ sCount = 0
    /\ sPend = <<>> /\ sTorn = FALSE /\ sSaw50 = FALSE
    /\ fPc = "none" /\ fPath = EmptyPath /\ fType = "" /\ fDir = {} /\ fRet = NonePath

(* ---------------------- POST /download: download() -------------------- *)
NextSlot(j) == pc[j] = "idle" /\ \A i \in JobIds : i < j => pc[i] # "idle"

ValidationError(url) ==
    CASE url.scheme = "" -> "URL is required"
      [] url.scheme \notin {"http", "https"} -> "Invalid URL format"
      [] detect_platform(url) = "unknown" -> "Unsupported platform"
      [] OTHER -> ""

\* a request that fails validation: lines 454-472
download_reject(j) ==
    /\ NextSlot(j)
    /\ \E raw \in Urls, mt \in MediaTypes :
         LET url == sanitize_url(raw)
         IN  /\ ValidationError(url) # ""
             /\ resp' = [resp EXCEPT ![j] = [code |-> 400, body |-> ValidationError(url)]]
             /\ loc' = [loc EXCEPT ![j].url = url, ![j].media_type = mt]
    /\ pc' = [pc EXCEPT ![j] = "returned"]
    /\ UNCHANGED <<now, ticks, JOBS, rec, JOB_LOCK, call, reaperVars, findVars, streamVars>>

\* a valid request creates its record under JOB_LOCK (lines 475-489) and goes on
\* to update_job_progress(job_id, "starting", 10) (line 498)
download_create(j) ==
    /\ NextSlot(j)
    /\ JOB_LOCK = Free
    /\ \E raw \in Urls, mt \in MediaTypes :
         LET url == sanitize_url(raw)
         IN  /\ ValidationError(url) = ""
             /\ rec' = [rec EXCEPT ![j] = NewRecord(detect_platform(url), mt, now)]
             /\ loc' = [loc EXCEPT ![j] = [NoLoc EXCEPT !.url = url, !.media_type = mt,
                                                        !.platform = detect_platform(url),
                                                        !.path = url.path]]
    /\ JOBS' = JOBS \cup {j}
    /\ Call(j, Phase("starting", 10), "extracting")
    /\ UNCHANGED <<now, ticks, JOB_LOCK, resp, reaperVars, findVars, streamVars>>

\* the handler answering 500 without the write to the record
FailUnrecorded(j, msg) ==
    /\ pc' = [pc EXCEPT ![j] = "respond"]
    /\ loc' = [loc EXCEPT ![j].msg = msg, ![j].code = 500]
    /\ UNCHANGED call

\* raise Exception(msg) inside the try: the handler at lines 659-667 writes the
\* message to the record and answers 500
Fail(j, msg) ==
    /\ Call(j, ErrorArgs(msg), "respond")
    /\ loc' = [loc EXCEPT ![j].msg = msg, ![j].code = 500]

\* yt_dlp.utils.DownloadError reaching the handler at lines 640-657
DownloadErrorMessage(raw) ==
    CASE raw = "private" -> "This content is private and cannot be downloaded"
      [] raw = "unavailable" -> "This content is not available or has been removed"
      [] raw = "login" -> "This content requires login and cannot be downloaded"
      [] raw = "unsupported url" -> "This URL format is not supported"
      [] OTHER -> raw

FailDownloadError(j, raw) ==
    /\ Call(j, ErrorArgs(raw), "respond")
    /\ loc' = [loc EXCEPT ![j].msg = DownloadErrorMessage(raw), ![j].code = 400]

\* line 504
download_extracting(j) ==
    /\ pc[j] = "extracting"
    /\ Call(j, Phase("extracting info", 20), "probe")
    /\ UNCHANGED <<now, ticks, JOBS, rec, JOB_LOCK, loc, resp, reaperVars, findVars, streamVars>>

\* the message the controller raises for a failed probe (lines 509-522)
ProbeMessage(e) ==
    CASE e = "private" -> "This content is private and cannot be downloaded"
      [] e = "unavailable" -> "This content is not available or has been removed"
      [] e = "login" -> "This content requires login. Please use public content."
      [] e = "unsupported url" -> "This URL is not supported"
      [] OTHER -> "Cannot access this content"

\* ydl.extract_info(url, download=False) and what follows it (lines 507-527)
download_probe(j) ==
    /\ pc[j] = "probe"
    /\ \/ \E e \in ProbeErrors : Fail(j, ProbeMessage(e))
       \/ Fail(j, "Could not extract media information from URL")
       \/ /\ \E info \in Infos : loc' = [loc EXCEPT ![j].info = info]
          /\ Call(j, Phase("extracting info", 35), "branch")
    /\ UNCHANGED <<now, ticks, JOBS, rec, JOB_LOCK, resp, reaperVars, findVars, streamVars>>

\* lines 532-545
IsImage(l) ==
    \/ l.info.ext \in {"jpg", "jpeg", "png", "webp", "gif"}
    \/ l.info.vcodec = "none" /\ l.info.thumbnail
    \/ l.platform = "instagram" /\ l.path = "/p/1"
    \/ l.info.thumbnail /\ ~l.info.url

\* photo jobs enter download_image_directly (line 116), the others go on to the
\* engine (line 563)
download_branch(j) ==
    /\ pc[j] = "branch"
    /\ IF loc[j].media_type = "Photo"
       THEN /\ loc' = [loc EXCEPT ![j].is_image = IsImage(loc[j])]
            /\ Call(j, Phase("downloading", 50), "img_url")
       ELSE /\ Call(j, Phase("preparing", 45), "engine")
            /\ UNCHANGED loc
    /\ UNCHANGED <<now, ticks, JOBS, rec, JOB_LOCK, resp, reaperVars, findVars, streamVars>>

(* ---------------------- download_image_directly ----------------------- *)
\* the 400 answer of the photo branch without the write to the record
ImageFailUnrecorded(j, msg) ==
    IF ~loc[j].is_image
    THEN /\ pc' = [pc EXCEPT ![j] = "respond"]
         /\ loc' = [loc EXCEPT ![j].msg = "This URL contains a video, not a photo",
                               ![j].code = 400]
         /\ UNCHANGED call
    ELSE Fail(j, "Failed to download photo")

\* an exception out of download_image_directly (lines 550-559): a source that
\* does not look like an image is answered 400, any other is re-raised
ImageFail(j, msg) ==
    IF ~loc[j].is_image
    THEN /\ Call(j, ErrorArgs("This URL contains a video, not a photo"), "respond")
         /\ loc' = [loc EXCEPT ![j].msg = "This URL contains a video, not a photo",
                               ![j].code = 400]
    ELSE Fail(j, "Failed to download photo")

\* lines 119-134: pick the image URL, then percent 60
image_url(j) ==
    /\ pc[j] = "img_url"
    /\ IF loc[j].info.thumbnail \/ loc[j].info.url
       THEN /\ Call(j, Phase("downloading", 60), "img_70")
            /\ UNCHANGED loc
       ELSE ImageFail(j, "No image URL found in media information")
    /\ UNCHANGED <<now, ticks, JOBS, rec, JOB_LOCK, resp, reaperVars, findVars, streamVars>>

\* line 145
image_named(j) ==
    /\ pc[j] = "img_70"
    /\ Call(j, Phase("downloading", 70), "img_get")
    /\ UNCHANGED <<now, ticks, JOBS, rec, JOB_LOCK, loc, resp, reaperVars, findVars, streamVars>>

\* lines 152-171: requests.get and raise_for_status raise, or the response
\* arrives with its content-length
image_get(j) ==
    /\ pc[j] = "img_get"
    /\ \/ ImageFail(j, "request failed")
       \/ \E total_size \in ContentLengths :
            /\ loc' = [loc EXCEPT ![j].total_size = total_size, ![j].downloaded = 0,
                                  ![j].chunks = 0]
            /\ Call(j, Args("downloading", 80, 0, total_size, NoneSp, NoneS, NoneS),
                    "img_chunks")
    /\ UNCHANGED <<now, ticks, JOBS, rec, JOB_LOCK, resp, reaperVars, findVars, streamVars>>

\* lines 181-183
AdjustedPercent(downloaded, total_size) ==
    LET percent == (downloaded * 100) \div total_size
    IN  80 + (percent * 15) \div 100

\* lines 175-184: one chunk of the body arrives
image_chunk(j) ==
    /\ pc[j] = "img_chunks"
    /\ loc[j].chunks < MaxChunks
    /\ \E n \in ChunkSizes :
         LET downloaded == loc[j].downloaded + n
             total_size == loc[j].total_size
         IN  /\ loc' = [loc EXCEPT ![j].downloaded = downloaded,
                                   ![j].chunks = loc[j].chunks + 1]
             /\ IF total_size > 0
                THEN Call(j, Args("downloading", AdjustedPercent(downloaded, total_size),
                                  downloaded, total_size, NoneSp, NoneS, NoneS),
                          "img_chunks")
                ELSE UNCHANGED <<pc, call>>
    /\ UNCHANGED <<now, ticks, JOBS, rec, JOB_LOCK, resp, reaperVars, findVars, streamVars>>

\* the body ends (line 186) or the connection breaks while it is read
image_end(j) ==
    /\ pc[j] = "img_chunks"
    /\ \/ /\ Call(j, Phase("downloading", 95), "img_check")
          /\ UNCHANGED loc
       \/ ImageFail(j, "connection broken")
    /\ UNCHANGED <<now, ticks, JOBS, rec, JOB_LOCK, resp, reaperVars, findVars, streamVars>>

\* lines 188-191, then lines 595-625 of download(): an empty file is an error,
\* a non-empty one is the artifact
image_check(j) ==
    /\ pc[j] = "img_check"
    /\ IF loc[j].downloaded = 0
       THEN ImageFail(j, "Image download failed - file is empty")
       ELSE /\ Call(j, Args("done", 100, NoneN, NoneN, NoneSp, "media.jpg", NoneS), "respond")
            /\ loc' = [loc EXCEPT ![j].filename = "media.jpg", ![j].code = 200]
    /\ UNCHANGED <<now, ticks, JOBS, rec, JOB_LOCK, resp, reaperVars, findVars, streamVars>>

(* ------------------- the engine and its progress hook ----------------- *)
\* ydl.extract_info(url, download=True) calls the hook (line 567, 286)
engine_callback(j) ==
    /\ pc[j] = "engine"
    /\ loc[j].hooks < MaxHooks
    /\ \E d \in HookInputs :
         loc' = [loc EXCEPT ![j].d = d, ![j].hooks = loc[j].hooks + 1]
    /\ pc' = [pc EXCEPT ![j] = "hook"]
    /\ UNCHANGED <<now, ticks, JOBS, rec, JOB_LOCK, call, resp, reaperVars, findVars, streamVars>>

\* d.get("total_bytes") or d.get("total_bytes_estimate")
HookTotal(d) == IF Truthy(d.total_bytes) THEN d.total_bytes ELSE d.total_bytes_estimate
\* lines 239-245
HookSpeed(d) == IF Truthy(d.speed) THEN SpeedStr(d.speed, 1) ELSE NoneSp
\* the band's upper end taken as 100
AdjustedPctTo100(downloaded, total) == Max(20, Min(100, (downloaded * 100) \div total))

\* lines 248-250
AdjustedPct(downloaded, total) == Max(20, Min(90, (downloaded * 100) \div total))

\* hook(d), lines 229-269, up to the call of update_job_progress or, on the
\* fallback branch, up to the unlocked read of the record
hook(j) ==
    /\ pc[j] = "hook"
    /\ LET d == loc[j].d
           total == HookTotal(d)
           downloaded == d.downloaded_bytes
       IN  IF j \notin JOBS
           THEN pc' = [pc EXCEPT ![j] = "engine"] /\ UNCHANGED call
           ELSE CASE d.status = "downloading" /\ Truthy(total) /\ Truthy(downloaded) ->
                       Call(j, Args("downloading", AdjustedPct(downloaded, total),
                                    downloaded, total, HookSpeed(d), NoneS, NoneS), "engine")
                  [] d.status = "downloading" /\ ~Truthy(total) /\ Truthy(downloaded) ->
                       Call(j, Args("downloading", NoneN, downloaded, NoneN,
                                    HookSpeed(d), NoneS, NoneS), "engine")
                  [] d.status = "downloading" /\ ~Truthy(downloaded) ->
                       pc' = [pc EXCEPT ![j] = "hook_read"] /\ UNCHANGED call
                  [] d.status = "finished" -> Call(j, Phase("processing", 92), "engine")
                  [] d.status = "postprocessing" -> Call(j, Phase("processing", 95), "engine")
                  [] d.status = "error" ->
                       Call(j, ErrorArgs(IF d.error = NoneS THEN "Unknown error" ELSE d.error),
                            "engine")
                  [] OTHER -> pc' = [pc EXCEPT ![j] = "engine"] /\ UNCHANGED call
    /\ UNCHANGED <<now, ticks, JOBS, rec, JOB_LOCK, loc, resp, reaperVars, findVars, streamVars>>

\* lines 257-259: JOBS[job_id] is read without the lock; a key the reaper has
\* removed raises KeyError, which leaves extract_info, is caught at line 568
\* and becomes "Download failed: ..."
hook_fallback(j) ==
    /\ pc[j] = "hook_read"
    /\ IF j \notin JOBS
       THEN Fail(j, "Download failed")
       ELSE /\ Call(j, Args("downloading", Min(85, rec[j].percent + 1), NoneN, NoneN,
                            HookSpeed(loc[j].d), NoneS, NoneS), "engine")
            /\ UNCHANGED loc
    /\ UNCHANGED <<now, ticks, JOBS, rec, JOB_LOCK, resp, reaperVars, findVars, streamVars>>

\* extract_info(download=True) raises: lines 568-574
engine_raise(j) ==
    /\ pc[j] = "engine"
    /\ \/ Fail(j, "No suitable video/audio format found for this content")
       \/ Fail(j, "Download failed")
    /\ UNCHANGED <<now, ticks, JOBS, rec, JOB_LOCK, resp, reaperVars, findVars, streamVars>>

\* extract_info(download=True) returns; prepare_filename (line 577) reports an
\* output-template error as DownloadError, or gives the predicted path and the
\* controller writes "finding file" (line 579)
engine_return(j) ==
    /\ pc[j] = "engine"
    /\ \/ FailDownloadError(j, "Error in output template")
       \/ /\ Call(j, Phase("finding file", 90), "resolve")
          /\ UNCHANGED loc
    /\ UNCHANGED <<now, ticks, JOBS, rec, JOB_LOCK, resp, reaperVars, findVars, streamVars>>

\* lines 582-625: the artifact is found (by find_downloaded_file or as the most
\* recent entry of the directory), verified and the record finalized; or nothing
\* is there, or the file is gone or empty
download_finalize(j) ==
    /\ pc[j] = "resolve"
    /\ \/ \E f \in {"media.mp4", "other.mp4"} :
            /\ Call(j, Args("done", 100, NoneN, NoneN, NoneSp, f, NoneS), "respond")
            /\ loc' = [loc EXCEPT ![j].filename = f, ![j].code = 200]
       \/ Fail(j, "Download completed but file not found. Please try again.")
       \/ Fail(j, "Download completed but file not found on server")
       \/ Fail(j, "Downloaded file is empty")
    /\ UNCHANGED <<now, ticks, JOBS, rec, JOB_LOCK, resp, reaperVars, findVars, streamVars>>

\* the return statements at lines 554, 630, 657 and 667
download_return(j) ==
    /\ pc[j] = "respond"
    /\ resp' = [resp EXCEPT ![j] =
                  [code |-> loc[j].code,
                   body |-> IF loc[j].code = 200 THEN loc[j].filename ELSE loc[j].msg]]
    /\ pc' = [pc EXCEPT ![j] = "returned"]
    /\ loc' = [loc EXCEPT ![j] = NoLoc]
    /\ UNCHANGED <<now, ticks, JOBS, rec, JOB_LOCK, call, reaperVars, findVars, streamVars>>

(* -------------------------- cleanup_old_jobs -------------------------- *)
\* the age test alone, the status left unread
ExpiredAnyStatus(job, t) == t - job.start_time > RETENTION

\* the age test with >= for >
ExpiredInclusive(job, t) == job.status \in Terminal /\ t - job.start_time >= RETENTION

\* lines 834-836: the record is terminal and older than the retention window
Expired(job, t) == job.status \in Terminal /\ t - job.start_time > RETENTION

\* the ids of S in increasing order: JOBS.items() iterates in insertion order
RECURSIVE Sorted(_)
Sorted(S) ==
    IF S = {} THEN <<>>
    ELSE LET m == CHOOSE x \in S : \A y \in S : x <= y
         IN  <<m>> \o Sorted(S \ {m})

\* lines 829-837: the sleep is over, the lock is taken and the records scanned.
\* time.sleep(300) only spaces the cycles out; a cycle may start at any time here
cleanup_scan ==
    /\ rPc = "sleep"
    /\ JOB_LOCK = Free
    /\ JOB_LOCK' = Reaper
    /\ current_time' = now
    /\ to_delete' = Sorted({j \in JOBS : Expired(rec[j], now)})
    /\ rIdx' = 1
    /\ rPc' = "deleting"
    /\ UNCHANGED <<now, ticks, JOBS, rec, pc, loc, call, resp, streamVars, findVars>>

\* lines 839-840: del JOBS[job_id]
cleanup_delete ==
    /\ rPc = "deleting"
    /\ rIdx <= Len(to_delete)
    /\ JOBS' = JOBS \ {to_delete[rIdx]}
    /\ rIdx' = rIdx + 1
    /\ UNCHANGED <<now, ticks, rec, JOB_LOCK, pc, loc, call, resp,
                   rPc, to_delete, current_time, streamVars, findVars>>

\* the with block ends and the thread sleeps again (line 829)
cleanup_release ==
    /\ rPc = "deleting"
    /\ rIdx > Len(to_delete)
    /\ JOB_LOCK' = Free
    /\ rPc' = "sleep"
    /\ to_delete' = <<>>
    /\ rIdx' = 0
    /\ current_time' = 0
    /\ UNCHANGED <<now, ticks, JOBS, rec, pc, loc, call, resp, streamVars, findVars>>

(* ------------------- GET /progress: event_stream --------------------- *)
(* One step per statement that reads shared state: the membership test, the *)
(* JOBS.get, the dict literal that builds a payload (all its reads at once), *)
(* the status test at the end of a poll.  Statements that read nothing      *)
(* shared are folded into the step before them.                             *)

\* get_status_message (lines 759-776): one text per status, the percent in it
\* for "downloading" only
get_status_message(status, percent) ==
    IF status = "downloading" THEN <<status, percent>> ELSE <<status>>

\* lines 706-716: the remaining time, in whole seconds (NoneN: None)
EstimatedTime(percent, start_time, t) ==
    LET elapsed == t - start_time
    IN  IF percent > 0 /\ percent < 100 /\ elapsed > 0 /\ percent > 5
        THEN (elapsed * (100 - percent)) \div percent
        ELSE NoneN

\* the dict literals at lines 686-695 and 718-728, read from record r
InitialData(r) ==
    [status |-> r.status, percent |-> r.percent, downloaded_bytes |-> r.downloaded_bytes,
     total_bytes |-> r.total_bytes, speed |-> r.speed, filename |-> r.filename,
     error |-> r.error, estimated_time |-> AbsentN,
     message |-> IF r.status = "starting" THEN <<"starting">> ELSE NoneSp]
Payload(r, estimated_time) ==
    [status |-> r.status, percent |-> r.percent, downloaded_bytes |-> r.downloaded_bytes,
     total_bytes |-> r.total_bytes, speed |-> r.speed, filename |-> r.filename,
     error |-> r.error, estimated_time |-> estimated_time,
     message |-> get_status_message(r.status, r.percent)]

\* a yield: the event counter saturates at MaxCount
Yield(ev) ==
    /\ sCount' = Min(sCount + 1, MaxCount)
    /\ sLast' = ev
    /\ sSaw50' = (sSaw50 \/ (ev.status = "downloading" /\ ev.percent = 50))

\* the payload p, just read from the record of sJob, is sent.  Read while an
\* update is part-way through its stores and differing from the record as it
\* stood before that update, it is put aside to be compared with the record
\* that update leaves
Pending(p) ==
    IF pc[sJob] = "update" /\ call[sJob].step > 1 /\ Core(p) # Core(call[sJob].old)
    THEN <<Core(p)>> ELSE <<>>

\* the error event without the return after it: the generator goes on to the
\* timers and the polling loop
stream_open_no_return(id) ==
    /\ sPc = "none"
    /\ sJob' = id
    /\ IF id \notin JOBS
       THEN /\ Yield(ErrorEvent("Job not found"))
            /\ sPc' = "init" /\ sFound' = "no" /\ sEnd' = "unknown job"
       ELSE /\ sPc' = "init" /\ sFound' = "yes"
            /\ UNCHANGED <<sCount, sLast, sSaw50, sEnd>>
    /\ UNCHANGED <<now, ticks, jobVars, reaperVars, findVars, sPay, sStart, sLastTime,
                   sPend, sTorn>>

\* lines 674-676: the request names job id `id`
stream_open(id) ==
    /\ sPc = "none"
    /\ sJob' = id
    /\ IF id \notin JOBS
       THEN /\ Yield(ErrorEvent("Job not found"))
            /\ sPc' = "closed" /\ sFound' = "no" /\ sEnd' = "unknown job"
       ELSE /\ sPc' = "init" /\ sFound' = "yes"
            /\ UNCHANGED <<sCount, sLast, sSaw50, sEnd>>
    /\ UNCHANGED <<now, ticks, jobVars, reaperVars, findVars, sPay, sStart, sLastTime,
                   sPend, sTorn>>

\* lines 678-697: the timers, JOBS.get, and the initial snapshot if the record
\* is still there
stream_init ==
    /\ sPc = "init"
    /\ sStart' = now /\ sLastTime' = now
    /\ IF sJob \in JOBS
       THEN /\ Yield(InitialData(rec[sJob]))
            /\ sPend' = Pending(InitialData(rec[sJob]))
       ELSE UNCHANGED <<sCount, sLast, sSaw50, sPend>>
    /\ sPc' = "get"
    /\ UNCHANGED <<now, ticks, jobVars, reaperVars, findVars, sJob, sPay, sFound, sEnd, sTorn>>

\* lines 700-716: the record is looked up again; gone, the session ends with an
\* error event; there, the remaining time is worked out
stream_get ==
    /\ sPc = "get"
    /\ IF sJob \notin JOBS
       THEN /\ Yield(ErrorEvent("Job not found"))
            /\ sPc' = "closed" /\ sEnd' = "job not found"
            /\ UNCHANGED sPay
       ELSE /\ sPc' = "payload"
            /\ sPay' = [NoPayload EXCEPT !.estimated_time =
                          EstimatedTime(rec[sJob].percent, rec[sJob].start_time, now)]
            /\ UNCHANGED <<sCount, sLast, sSaw50, sEnd>>
    /\ UNCHANGED <<now, ticks, jobVars, reaperVars, findVars, sJob, sStart, sLastTime,
                   sFound, sPend, sTorn>>

\* the heartbeat test with >= for >
MustSendInclusive(encoded, last_sent, last_progress_time, t) ==
    encoded # last_sent \/ t - last_progress_time >= HEARTBEAT

\* line 735
MustSend(encoded, last_sent, last_progress_time, t) ==
    encoded # last_sent \/ t - last_progress_time > HEARTBEAT

\* lines 718-738: the payload is built and sent if it changed or the heartbeat
\* is due
stream_payload ==
    /\ sPc = "payload"
    /\ LET p == Payload(rec[sJob], sPay.estimated_time)
       IN  /\ sPay' = p
           /\ IF MustSend(p, sLast, sLastTime, now)
              THEN /\ Yield(p)
                   /\ sLastTime' = now
                   /\ sPend' = Pending(p)
              ELSE UNCHANGED <<sCount, sLast, sSaw50, sLastTime, sPend>>
    /\ sPc' = "check"
    /\ UNCHANGED <<now, ticks, jobVars, reaperVars, findVars, sJob, sStart, sFound, sEnd, sTorn>>

\* the end of a poll without the timeout test
stream_check_no_timeout ==
    /\ sPc = "check"
    /\ IF rec[sJob].status \in Terminal
       THEN /\ Yield(IF rec[sJob].status = "done"
                     THEN [sPay EXCEPT !.percent = 100, !.message = <<"done">>]
                     ELSE sPay)
            /\ sPc' = "closed" /\ sEnd' = "terminal"
       ELSE /\ sPc' = "get"
            /\ UNCHANGED <<sCount, sLast, sSaw50, sEnd>>
    /\ sPay' = NoPayload
    /\ UNCHANGED <<now, ticks, jobVars, reaperVars, findVars, sJob, sStart, sLastTime, sFound,
                   sPend, sTorn>>

\* lines 741-754: a terminal status ends the session with one more yield of the
\* payload; so does the timeout, with an error event; otherwise the thread sleeps
stream_check ==
    /\ sPc = "check"
    /\ IF rec[sJob].status \in Terminal
       THEN /\ Yield(IF rec[sJob].status = "done"
                     THEN [sPay EXCEPT !.percent = 100, !.message = <<"done">>]
                     ELSE sPay)
            /\ sPc' = "closed" /\ sEnd' = "terminal"
       ELSE IF now - sStart > TIMEOUT_SECONDS
            THEN /\ Yield(ErrorEvent("Download timeout - please try again"))
                 /\ sPc' = "closed" /\ sEnd' = "timeout"
            ELSE /\ sPc' = "get"
                 /\ UNCHANGED <<sCount, sLast, sSaw50, sEnd>>
    /\ sPay' = NoPayload
    /\ UNCHANGED <<now, ticks, jobVars, reaperVars, findVars, sJob, sStart, sLastTime, sFound,
                   sPend, sTorn>>

(* ------------------------ find_downloaded_file ------------------------ *)
\* str.lower() on the media types and extensions that occur
lower(s) ==
    CASE s = "Audio" -> "audio"
      [] s = "Photo" -> "photo"
      [] s = "Video" -> "video"
      [] s = "Reel" -> "reel"
      [] s = ".MP4" -> ".mp4"
      [] OTHER -> s

\* the video list in reverse order for every kind's list
extensions_reversed(media_type) ==
    IF lower(media_type) \in {"audio", "audio only", "audio-only"}
    THEN <<".aac", ".wav", ".ogg", ".opus", ".m4a", ".mp3">>
    ELSE IF lower(media_type) = "photo"
         THEN <<".gif", ".webp", ".png", ".jpeg", ".jpg">>
         ELSE <<".flv", ".avi", ".mov", ".webm", ".mkv", ".mp4">>

\* lines 380-385
extensions(media_type) ==
    IF lower(media_type) \in {"audio", "audio only", "audio-only"}
    THEN <<".mp3", ".m4a", ".opus", ".ogg", ".wav", ".aac">>
    ELSE IF lower(media_type) = "photo"
         THEN <<".jpg", ".jpeg", ".png", ".webp", ".gif">>
         ELSE <<".mp4", ".mkv", ".webm", ".mov", ".avi", ".flv">>

Range(q) == {q[i] : i \in DOMAIN q}
PathOf(f) == [base |-> f.base, ext |-> f.ext]
\* os.path.exists on a directory given as its entries with their getctime
exists(dir, path) == \E f \in dir : PathOf(f) = path

\* the age test with <= for <
is_recent_inclusive(f, t) == t - f.ctime <= RECENT

\* line 409
is_recent(f, t) == t - f.ctime < RECENT

\* lines 399-410: the entries glob lists, filtered by extension and by age
recent_files(dir, media_type, t) ==
    {f \in dir : lower(f.ext) \in Range(extensions(media_type)) /\ is_recent(f, t)}

\* the values find_downloaded_file can return: max() keeps the first of several
\* entries with the greatest getctime, and glob lists them in no fixed order
find_downloaded_file(prepared_path, media_type, dir, t) ==
    IF prepared_path # EmptyPath /\ exists(dir, prepared_path)
    THEN {prepared_path}
    ELSE LET exts == extensions(media_type)
             candidate(i) == [base |-> prepared_path.base, ext |-> exts[i]]
             hits == {i \in DOMAIN exts :
                        prepared_path # EmptyPath /\ exists(dir, candidate(i))}
             recent == recent_files(dir, media_type, t)
         IN  IF hits # {}
             THEN {candidate(CHOOSE i \in hits : \A k \in hits : i <= k)}
             ELSE IF recent # {}
                  THEN {PathOf(f) : f \in {g \in recent :
                                             \A h \in recent : h.ctime <= g.ctime}}
                  ELSE {NonePath}

\* the inputs of a call: the media type, the path prepare_filename predicts (or
\* none), any subset of the files base+ext of the kind, and other recent or old
\* files of the directory
FindTypes == {"Audio", "Photo", "Video", "Reel"}
PreparedPaths ==
    {EmptyPath} \cup {[base |-> "a", ext |-> e] : e \in {".webm", ".mp4", ".jpg", ".mp3"}}
CandidateAges == {1, 500}
CandidateFiles(media_type, c) ==
    {[base |-> "a", ext |-> e, ctime |-> c] : e \in Range(extensions(media_type))}
OtherAges == {5, RECENT - 1, RECENT}
OtherFiles(t) ==
    {[base |-> "b", ext |-> e, ctime |-> t - a] :
        e \in {".mp4", ".MP4", ".mp3", ".jpg", ".txt"}, a \in OtherAges}
OtherSets(t) ==
    {D \in SUBSET OtherFiles(t) :
        /\ Cardinality(D) <= MaxOthers
        /\ \A f, g \in D : PathOf(f) = PathOf(g) => f = g}

InitFind ==
    /\ now = 1000
    /\ InitProgram
    /\ fPc = "call" /\ fRet = NonePath
    /\ \E others \in OtherSets(1000) :
         \E mt \in FindTypes, a \in CandidateAges :
           \E present \in SUBSET CandidateFiles(mt, 1000 - a) :
             /\ fType = mt
             /\ fDir = present \cup others
    /\ fPath \in PreparedPaths

\* the call at line 582
find_call ==
    /\ fPc = "call"
    /\ fRet' \in find_downloaded_file(fPath, fType, fDir, now)
    /\ fPc' = "returned"
    /\ UNCHANGED <<now, ticks, jobVars, reaperVars, streamVars, fPath, fType, fDir>>

\* the entries of the directory with the smallest getctime
oldest_entries(dir) == {f \in dir : \A g \in dir : f.ctime <= g.ctime}

\* max(recent, key=os.path.getctime) at line 589: one of the entries with the
\* greatest getctime
latest_entries(dir) == {f \in dir : \A g \in dir : g.ctime <= f.ctime}

\* lines 584-592: nothing found, the controller lists the directory again and
\* takes its most recent entry, whatever it is; with no entry it raises
\* "Download completed but ... file not found"
download_fallback ==
    /\ fPc = "returned"
    /\ IF fRet # NonePath
       THEN fPc' = "resolved" /\ UNCHANGED fRet
       ELSE IF fDir # {}
            THEN /\ \E f \in latest_entries(fDir) : fRet' = PathOf(f)
                 /\ fPc' = "resolved"
            ELSE fPc' = "not found" /\ UNCHANGED fRet
    /\ UNCHANGED <<now, ticks, jobVars, reaperVars, streamVars, fPath, fType, fDir>>

(* --------------------------- specifications --------------------------- *)
JobNext ==
    \/ \E j \in JobIds : download_reject(j)
    \/ \E j \in JobIds : download_create(j)
    \/ \E j \in JobIds : update_job_progress(j)
    \/ \E j \in JobIds : download_extracting(j)
    \/ \E j \in JobIds : download_probe(j)
    \/ \E j \in JobIds : download_branch(j)
    \/ \E j \in JobIds : image_url(j)
    \/ \E j \in JobIds : image_named(j)
    \/ \E j \in JobIds : image_get(j)
    \/ \E j \in JobIds : image_chunk(j)
    \/ \E j \in JobIds : image_end(j)
    \/ \E j \in JobIds : image_check(j)
    \/ \E j \in JobIds : engine_callback(j)
    \/ \E j \in JobIds : hook(j)
    \/ \E j \in JobIds : hook_fallback(j)
    \/ \E j \in JobIds : engine_raise(j)
    \/ \E j \in JobIds : engine_return(j)
    \/ \E j \in JobIds : download_finalize(j)
    \/ \E j \in JobIds : download_return(j)

\* the request threads, the reaper thread and the clock.  event_stream writes
\* nothing these read, so leaving the session out changes none of their runs
Next ==
    \/ Tick
    \/ JobNext
    \/ cleanup_scan
    \/ cleanup_delete
    \/ cleanup_release

Spec == Init /\ [][Next]_vars

\* the request threads and the reaper in the runs that fit in one clock second
\* (no Tick, and so no record old enough to delete)
NextUntimed ==
    \/ JobNext
    \/ cleanup_scan
    \/ cleanup_release

\* the same with the threads scheduled: a request thread that can take a step
\* again and again does take one (it may have to wait for JOB_LOCK, which the
\* reaper takes for one scan at a time), every call into the engine and into the
\* image fetch with it; the reaper ends the cycle it began
SpecFair ==
    /\ Init /\ [][NextUntimed]_vars
    /\ SF_vars(JobNext)
    /\ WF_vars(cleanup_release)

\* the request threads and one stream session, in the runs where the whole job
\* fits in one clock second (no Tick, and so nothing for the reaper to delete)
NextStream ==
    \/ JobNext
    \/ \E id \in 1..(MaxJobs + 1) : stream_open(id)
    \/ stream_init
    \/ stream_get
    \/ stream_payload
    \/ stream_check

SpecStream == Init /\ [][NextStream]_vars

\* the clock moves while a session is in its polling loop: time.sleep(0.3)
\* (line 754) and the waits of a poll add up.  Steps of exactly the timeout
\* and of one second more, until the session has been open for longer than
\* the timeout
ElapseSteps == {TIMEOUT_SECONDS, TIMEOUT_SECONDS + 1}

Elapse ==
    /\ sPc \in {"get", "payload", "check"}
    /\ now - sStart <= TIMEOUT_SECONDS
    /\ \E d \in ElapseSteps : now' = now + d
    /\ UNCHANGED <<ticks, jobVars, reaperVars, findVars, streamVars>>

\* one Video request for a supported url: a probe that finds the media or
\* cannot reach it, at most one callback (downloading at 50%, or error), a
\* download that raises or returns, a file that is found
LeanInputs ==
    \A j \in JobIds :
        /\ loc[j].url.host \in {"", "youtube.com"}
        /\ loc[j].media_type \in {"", "Video"}
        /\ loc[j].info \in {NoInfo, [ext |-> "mp4", vcodec |-> "avc1", thumbnail |-> TRUE,
                                      url |-> TRUE]}
        /\ loc[j].hooks <= 1
        /\ loc[j].d.status \in {"", "error"} \/ loc[j].d.speed = 2 * MiB
        /\ loc[j].msg \in {"", "Cannot access this content", "Download failed"}
        /\ loc[j].filename \in {NoneS, "media.mp4"}

LeanJobNext ==
    \/ \E j \in JobIds : download_create(j) /\ LeanInputs'
    \/ \E j \in JobIds : update_job_progress(j) /\ LeanInputs'
    \/ \E j \in JobIds : download_extracting(j) /\ LeanInputs'
    \/ \E j \in JobIds : download_probe(j) /\ LeanInputs'
    \/ \E j \in JobIds : download_branch(j) /\ LeanInputs'
    \/ \E j \in JobIds : engine_callback(j) /\ LeanInputs'
    \/ \E j \in JobIds : hook(j) /\ LeanInputs'
    \/ \E j \in JobIds : engine_raise(j) /\ LeanInputs'
    \/ \E j \in JobIds : engine_return(j) /\ LeanInputs'
    \/ \E j \in JobIds : download_finalize(j) /\ LeanInputs'
    \/ \E j \in JobIds : download_return(j) /\ LeanInputs'

StreamNext ==
    \/ stream_init
    \/ stream_get
    \/ stream_payload
    \/ stream_check

\* one stream session with the clock running, next to one request thread that
\* may stop for good at any point (an engine call that never returns); the
\* generator is resumed whenever it can run, and time passes
NextLive ==
    \/ LeanJobNext
    \/ \E id \in 1..(MaxJobs + 1) : stream_open(id)
    \/ StreamNext
    \/ Elapse

SpecLive ==
    /\ Init /\ [][NextLive]_vars
    /\ WF_vars(StreamNext)
    /\ WF_vars(Elapse)

\* time passes between the polls of a session: time.sleep(0.3) (line 754) and
\* the waits of a poll add up
PollTick == sPc \in {"get", "payload", "check"} /\ Tick

\* one stream session next to one request thread and the reaper, the clock
\* moving while the session polls
NextPoll ==
    \/ PollTick
    \/ LeanJobNext
    \/ \E id \in 1..(MaxJobs + 1) : stream_open(id)
    \/ StreamNext
    \/ cleanup_scan
    \/ cleanup_delete
    \/ cleanup_release

SpecPoll == Init /\ [][NextPoll]_vars

\* find_downloaded_file and the controller's step after it, applied to every
\* input drawn by InitFind
NextFind == find_call \/ download_fallback
SpecFind == InitFind /\ [][NextFind]_vars

\* update_job_progress alone, applied to every input drawn by InitUpdate
NextUpdate == \E j \in UpdateIds : update_job_progress(j)
SpecUpdate == InitUpdate /\ [][NextUpdate]_vars

(* ------------------------------ properties ---------------------------- *)
\* no update_job_progress call on the record of j is part-way through its stores
Quiescent(j) == ~(pc[j] = "update" /\ call[j].step > 1)

\* the reaper has finished the deletions of a cycle and still holds the lock
CycleDone == rPc = "deleting" /\ rIdx > Len(to_delete)

\* C1: for every job, no write to its record lowers percent: from one state
\* to the next the percent of a record in the store never decreases
C1_PercentNeverDecreases ==
    [][\A j \in JobIds : j \in JOBS => rec'[j].percent >= rec[j].percent]_vars

\* C2: whenever no update of the record is in progress, its status is done or
\* error if and only if exactly one of filename and error is set
C2_TerminalIffOneOfFilenameError ==
    \A j \in JOBS :
        Quiescent(j) =>
            (rec[j].status \in Terminal
                <=> ((rec[j].filename # NoneS) # (rec[j].error # NoneS)))

\* C3: once the status of a record is done or error, no step changes it
C3_TerminalAbsorbing ==
    [][\A j \in JobIds : rec[j].status \in Terminal => rec'[j].status = rec[j].status]_vars

\* C4: whenever no update of the record is in progress, percent is 100 if and
\* only if status is done
C4_HundredIffDone ==
    \A j \in JOBS : Quiescent(j) => (rec[j].percent = 100 <=> rec[j].status = "done")

\* C5: the percent of every record in the store is in 0..100, after every write
C5_PercentInRange == \A j \in JOBS : rec[j].percent \in 0..100

\* C6: no payload the stream emits is a mix of old and new fields: none was
\* read part-way through an update while equal neither to the record before
\* that update nor to the record after it
C6_NoTornPayload == ~sTorn

\* C7: a record leaves the store only in a step of the reaper's cycle, taken
\* under the lock, and at that moment its status is done or error and its
\* start_time is more than 3600 s in the past
C7_RemovedOnlyByReaper ==
    [][\A j \in JOBS :
          j \notin JOBS' =>
              /\ rPc = "deleting" /\ JOB_LOCK = Reaper
              /\ rec[j].status \in {"done", "error"}
              /\ now - rec[j].start_time > 3600]_vars

\* C7: a record that was created has been removed
C7_Witness == \E j \in JobIds : rec[j].status # "" /\ j \notin JOBS

\* C8: when a reaper cycle has made its deletions, no record left in the store
\* is terminal with start_time more than 3600 s before the cycle's clock
\* reading, and every record the cycle removed was
C8_CycleDeletesExactlyOld ==
    CycleDone =>
        /\ \A j \in JOBS :
             ~(rec[j].status \in {"done", "error"}
                 /\ current_time - rec[j].start_time > 3600)
        /\ \A i \in 1..Len(to_delete) :
             /\ to_delete[i] \notin JOBS
             /\ rec[to_delete[i]].status \in {"done", "error"}
             /\ current_time - rec[to_delete[i]].start_time > 3600

\* C8: a cycle has deleted a done record aged 3601 s
C8_Witness ==
    /\ CycleDone
    /\ \E i \in 1..Len(to_delete) :
         /\ rec[to_delete[i]].status = "done"
         /\ current_time - rec[to_delete[i]].start_time = 3601
         /\ to_delete[i] \notin JOBS

\* C8: a cycle has retained a done record aged 3599 s
C8_Retained ==
    /\ CycleDone
    /\ \E j \in JOBS :
         rec[j].status = "done" /\ current_time - rec[j].start_time = 3599

\* C9: a session opened for an id that is not in the store has ended, having
\* emitted exactly one event, the error event, without reaching the loop
C9_UnknownJobOneError ==
    sFound = "no" =>
        /\ sPc = "closed"
        /\ sCount = 1
        /\ sLast = ErrorEvent("Job not found")
        /\ sEnd = "unknown job"

\* C9: a session has been opened for an id that is not in the store
C9_Witness == sFound = "no" /\ sJob \notin JOBS /\ sCount = 1

\* C10: a session that emitted the job at downloading 50% and ended on the
\* job's done status has as its last event status done, percent 100, a
\* filename and no error
C10_FinalEventDone ==
    (sEnd = "terminal" /\ sSaw50 /\ rec[sJob].status = "done") =>
        /\ sLast.status = "done"
        /\ sLast.percent = 100
        /\ sLast.filename # NoneS
        /\ sLast.error = NoneS

\* C13: a request that created a record and has been answered with an error
\* response finds that record, if it is still in the store, with status error
\* and an error message
C13_ErrorResponseRecorded ==
    \A j \in JobIds :
        (pc[j] = "returned" /\ resp[j].code # 200 /\ rec[j].status # "" /\ j \in JOBS)
            => (rec[j].status = "error" /\ rec[j].error # NoneS)

\* C13: a request that created its record has been answered with an error
C13_Witness ==
    \E j \in JOBS : pc[j] = "returned" /\ resp[j].code = 500 /\ rec[j].status = "error"

\* the hosts of the supported platforms
SupportedHosts ==
    {"instagram.com", "facebook.com", "fb.watch", "fb.com", "youtube.com", "youtu.be",
     "twitter.com", "x.com", "t.co", "linkedin.com", "snapchat.com", "snap.com"}

\* C14: a request whose url is empty, has no http:// or https:// prefix or names
\* a host that is not a supported platform is answered 400 and creates no record
C14_InvalidRequestRejected ==
    \A j \in JobIds :
        (/\ loc[j].url # NoUrl
         /\ \/ loc[j].url.scheme \notin {"http", "https"}
            \/ loc[j].url.host \notin SupportedHosts)
            => (/\ pc[j] = "returned" /\ resp[j].code = 400
                /\ j \notin JOBS /\ rec[j] = NoRec)

\* the messages of the recognized extraction failures
RecognizedFailures ==
    {"This content is private and cannot be downloaded",
     "This content is not available or has been removed",
     "This content requires login. Please use public content.",
     "This URL is not supported",
     "No suitable video/audio format found for this content"}

\* C15: after its record was created, a request that failed with a recognized
\* extraction failure is answered 400, one that failed otherwise 500
C15_RecognizedFailure400 ==
    \A j \in JobIds :
        (pc[j] = "returned" /\ rec[j].status # "" /\ resp[j].code # 200)
            => (resp[j].code = IF resp[j].body \in RecognizedFailures THEN 400 ELSE 500)

\* the hook has returned from a downloading callback that carried a total and a
\* downloaded count, and the record is in the store
AfterSizedCallback(j) ==
    /\ pc[j] = "engine" /\ j \in JOBS
    /\ loc[j].d.status = "downloading"
    /\ loc[j].d.downloaded_bytes > 0
    /\ (loc[j].d.total_bytes > 0 \/ loc[j].d.total_bytes_estimate > 0)

\* C16: after a downloading callback with total > 0 and downloaded > 0 the
\* percent of the record is floor(downloaded*100/total) brought into 20..90:
\* raw 5 gives 20, raw 50 gives 50, raw 99 gives 90
C16_HookPercentClamped ==
    \A j \in JobIds :
        AfterSizedCallback(j) =>
            LET d == loc[j].d
                total == IF d.total_bytes > 0 THEN d.total_bytes ELSE d.total_bytes_estimate
                raw == (d.downloaded_bytes * 100) \div total
            IN  /\ rec[j].percent = (IF raw < 20 THEN 20 ELSE IF raw > 90 THEN 90 ELSE raw)
                /\ raw = 5 => rec[j].percent = 20
                /\ raw = 50 => rec[j].percent = 50
                /\ raw = 99 => rec[j].percent = 90

\* C16: a callback with raw percent 99 has been written as 90
C16_Witness ==
    \E j \in JobIds :
        /\ AfterSizedCallback(j)
        /\ loc[j].d.downloaded_bytes = 3960000 /\ loc[j].d.total_bytes_estimate = 4000000
        /\ rec[j].percent = 90

\* the hook, in a downloading callback with neither a total nor a downloaded
\* count, has read the record and is about to write the new percent
FallbackWrite(j) ==
    /\ pc[j] = "update" /\ call[j].step = 1 /\ call[j].cont = "engine"
    /\ loc[j].d.status = "downloading"
    /\ loc[j].d.downloaded_bytes = NoneN

\* C19: the percent the fallback branch writes is min(85, current + 1), is not
\* lower than the current percent and is below 100
C19_FallbackNeverRegresses ==
    \A j \in JOBS :
        FallbackWrite(j) =>
            /\ call[j].a.percent = Min(85, rec[j].percent + 1)
            /\ call[j].a.percent >= rec[j].percent
            /\ call[j].a.percent < 100

\* the update_job_progress call of an error callback is in progress
InErrorCallback(j) ==
    pc[j] = "update" /\ call[j].cont = "engine" /\ loc[j].d.status = "error" /\ j \in JOBS

\* C20: every store of an error callback leaves percent, filename and the byte
\* counters as they were, and when the hook returns (to the engine, nothing
\* raised) status is error and error holds the engine's message
C20_HookErrorRecorded ==
    [][\A j \in JobIds :
          InErrorCallback(j) =>
              /\ rec'[j].percent = rec[j].percent
              /\ rec'[j].filename = rec[j].filename
              /\ rec'[j].downloaded_bytes = rec[j].downloaded_bytes
              /\ rec'[j].total_bytes = rec[j].total_bytes
              /\ pc'[j] \in {"update", "engine"}
              /\ pc'[j] = "engine" =>
                    /\ rec'[j].status = "error"
                    /\ rec'[j].error = (IF loc[j].d.error = NoneS THEN "Unknown error"
                                        ELSE loc[j].d.error)]_vars

\* C20: the hook has returned from an error callback that carried a message
C20_Witness ==
    \E j \in JOBS :
        /\ pc[j] = "engine" /\ loc[j].d.status = "error"
        /\ rec[j].status = "error" /\ rec[j].error = "engine failure"

\* C12: every record created by POST /download eventually has status done or
\* error, when every call into the engine and the image fetch returns or raises
C12_JobTerminates ==
    \A j \in JobIds : (j \in JOBS) ~> (rec[j].status \in Terminal)

\* C12: a created record has reached done, its request answered
C12_Witness ==
    \E j \in JOBS : rec[j].status = "done" /\ pc[j] = "returned" /\ resp[j].code = 200

\* C11: every session opened on a job in the store ends; the poll that finds
\* status done or error ends it, so does the first poll made more than 600 s
\* after the session began, and then the last event is the timeout error
C11_StreamEnds ==
    /\ (sFound = "yes") ~> (sPc = "closed")
    /\ [][(sPc = "check" /\ sPc' # "check") =>
             IF rec[sJob].status \in {"done", "error"}
             THEN sPc' = "closed" /\ sEnd' = "terminal"
             ELSE IF now - sStart > 600
                  THEN /\ sPc' = "closed" /\ sEnd' = "timeout"
                       /\ sLast' = ErrorEvent("Download timeout - please try again")
                  ELSE sPc' = "get"]_vars

\* C11: a session on a job that never became terminal has ended on the timeout
C11_Witness ==
    /\ sFound = "yes" /\ sPc = "closed" /\ sEnd = "timeout"
    /\ rec[sJob].status \notin Terminal

\* the priority list of each kind, as the contract of find_downloaded_file lists it
KindPriority(media_type) ==
    IF media_type = "Audio" THEN <<".mp3", ".m4a", ".opus", ".ogg", ".wav", ".aac">>
    ELSE IF media_type = "Photo" THEN <<".jpg", ".jpeg", ".png", ".webp", ".gif">>
    ELSE <<".mp4", ".mkv", ".webm", ".mov", ".avi", ".flv">>

\* the file fPath.base + the i-th extension of the kind is in the directory
SiblingPresent(i) ==
    exists(fDir, [base |-> fPath.base, ext |-> KindPriority(fType)[i]])

\* C17: when the predicted path exists, find_downloaded_file returns it
\* unchanged; when it does not, the result is base + the first extension of the
\* kind's priority list whose file exists, whichever subset of these files exists
C17_FirstExistingCandidate ==
    (fPc = "returned" /\ fPath # EmptyPath) =>
        IF exists(fDir, fPath)
        THEN fRet = fPath
        ELSE \A i \in DOMAIN KindPriority(fType) :
                (SiblingPresent(i) /\ \A k \in 1..(i - 1) : ~SiblingPresent(k))
                    => fRet = [base |-> fPath.base, ext |-> KindPriority(fType)[i]]

\* an audio call whose predicted a.webm is gone, a.mp3 is absent, and a.m4a is
\* returned although a.opus is there too
C17_Witness ==
    /\ fPc = "returned" /\ fType = "Audio"
    /\ fPath = [base |-> "a", ext |-> ".webm"] /\ ~exists(fDir, fPath)
    /\ ~SiblingPresent(1) /\ SiblingPresent(2) /\ SiblingPresent(3)
    /\ fRet = [base |-> "a", ext |-> ".m4a"]

\* neither the predicted path nor any base+ext file of the kind exists
NothingPredicted ==
    \/ fPath = EmptyPath
    \/ /\ ~exists(fDir, fPath)
       /\ \A i \in DOMAIN KindPriority(fType) : ~SiblingPresent(i)

\* the directory's files of the kind created less than 120 seconds ago
RecentOfKind ==
    {f \in fDir : /\ lower(f.ext) \in Range(KindPriority(fType))
                  /\ now - f.ctime < 120}

\* C18: when neither the predicted path nor a base+ext candidate exists, the
\* result is a file of the kind created less than 120 seconds ago than which no
\* other such file is more recent, and not-found when the directory has none
C18_MostRecentOrNone ==
    (fPc = "returned" /\ NothingPredicted) =>
        IF RecentOfKind = {}
        THEN fRet = NonePath
        ELSE \E f \in RecentOfKind :
                /\ fRet = PathOf(f)
                /\ \A g \in RecentOfKind : g.ctime <= f.ctime

\* the file created 119 seconds ago is returned, the one created 120 seconds
\* ago is passed over
C18_Witness ==
    /\ fPc = "returned" /\ NothingPredicted /\ fPath # EmptyPath
    /\ \E f, g \in fDir :
         /\ now - f.ctime = 119 /\ now - g.ctime = 120
         /\ lower(g.ext) \in Range(KindPriority(fType))
         /\ fRet = PathOf(f)

\* the record fields a call with arguments a may write: those passed, and the
\* speed when downloaded_bytes is passed
Passed(a) ==
    (IF a.status # "" THEN {"status"} ELSE {})
    \cup (IF a.percent # NoneN THEN {"percent"} ELSE {})
    \cup (IF a.downloaded_bytes # NoneN THEN {"downloaded_bytes", "speed"} ELSE {})
    \cup (IF a.total_bytes # NoneN THEN {"total_bytes"} ELSE {})
    \cup (IF a.speed # NoneSp THEN {"speed"} ELSE {})
    \cup (IF a.filename # NoneS THEN {"filename"} ELSE {})
    \cup (IF a.error # NoneS THEN {"error"} ELSE {})

\* C21: a step of update_job_progress for an id that is not in the store
\* changes no record and returns to the caller; for a known id it changes no
\* field of that record other than those passed (and the speed when downloaded
\* bytes are passed), no other record, and not the set of stored ids
C21_UpdateFrame ==
    [][\A j \in DOMAIN pc :
          (pc[j] = "update" /\ call'[j] # call[j]) =>
             /\ JOBS' = JOBS
             /\ \A i \in DOMAIN rec : i # j => rec'[i] = rec[i]
             /\ j \notin JOBS => (rec' = rec /\ pc'[j] = call[j].cont)
             /\ \A f \in DOMAIN rec[j] :
                   f \notin Passed(call[j].a) => rec'[j][f] = rec[j][f]]_vars

\* a call on an id that is not in the store has returned beside a call that
\* wrote the other record
C21_Witness ==
    /\ DOMAIN pc = UpdateIds
    /\ \E j, i \in UpdateIds :
         /\ j \notin JOBS /\ pc[j] = "returned"
         /\ i \in JOBS /\ pc[i] = "returned" /\ rec[i].status = "done"
         /\ rec[i].filename = "media.mp4" /\ rec[i].percent = 100

\* the hook's unlocked read of JOBS[job_id] (line 257) finds the key gone
HookReadRaises(j) == pc[j] = "hook_read" /\ j \notin JOBS

\* C25: the hook never raises: its read of the record's percent on the
\* fallback branch never comes after the reaper removed the record, whatever
\* reaper cycle runs between the membership test and the read
C25_HookNeverRaises == \A j \in JobIds : ~HookReadRaises(j)

\* the response in loc[j] is a success naming loc[j].filename
SuccessResponse(j) == pc[j] = "respond" /\ loc[j].code = 200

\* C26: whenever the request is about to return a success response, the store
\* holds the job's record with status done, percent 100 and the filename of
\* the response
C26_SuccessRecorded ==
    \A j \in JobIds :
        SuccessResponse(j) =>
            /\ j \in JOBS
            /\ rec[j].status = "done" /\ rec[j].percent = 100
            /\ rec[j].filename = loc[j].filename

\* C22: a poll of the session emits an event if and only if the payload it
\* built differs from the last one sent or more than 1 second has passed since
\* the last emission
C22_EmitIffChangedOrHeartbeat ==
    [][(sPc = "payload" /\ sPc' = "check") =>
          ((sLast' # sLast \/ sLastTime' # sLastTime)
              <=> (sPay' # sLast \/ now - sLastTime > 1))]_vars

\* the second poll of a session is about to keep silent: the payload it builds
\* is the one last sent, exactly one second after that was sent
C22_Witness ==
    /\ sPc = "payload" /\ sCount = 2
    /\ Payload(rec[sJob], sPay.estimated_time) = sLast
    /\ now - sLastTime = 1

\* C23: a session that ends on a terminal status has sent exactly one payload
\* carrying that status, the final one: the event sent before the final one
\* does not carry it
C23_OneTerminalPayload ==
    [][(sPc = "check" /\ sPc' = "closed" /\ sEnd' = "terminal") =>
          /\ sLast'.status \in Terminal
          /\ sLast.status # sLast'.status]_vars

\* C24: once a session has entered its polling loop, no 'Job not found' event
\* follows, whatever the reaper deletes in the meantime
C24_NoJobNotFoundInLoop == sEnd # "job not found"

\* C27: when find_downloaded_file found nothing, the controller goes on with a
\* most recently created entry of the directory, whatever its extension and
\* age, and it raises 'file not found' only when the directory has no entry
C27_FallbackTakesNewestEntry ==
    /\ fPc = "not found" => fDir = {}
    /\ (fPc \in {"resolved", "not found"} /\ NothingPredicted /\ RecentOfKind = {}) =>
          IF fDir = {}
          THEN fPc = "not found"
          ELSE /\ fPc = "resolved"
               /\ \E f \in fDir : /\ fRet = PathOf(f)
                                  /\ \A g \in fDir : g.ctime <= f.ctime

\* a video job goes on with b.txt, created 120 seconds ago: a file another
\* job left in the directory
C27_Witness ==
    /\ fPc = "resolved" /\ fType = "Video" /\ fPath = [base |-> "a", ext |-> ".webm"]
    /\ NothingPredicted /\ RecentOfKind = {}
    /\ fRet = [base |-> "b", ext |-> ".txt"]
    /\ \E f \in fDir : PathOf(f) = fRet /\ now - f.ctime = 120

=============================================================================
